---- MODULE Spec2Model ----
(***************************************************************************)
(* Model of two utilities of the Quasar CLI tooling:                       *)
(*   - cli/bin/quasar-upgrade: getLatestVersion (registry query + version  *)
(*     matcher) and upgradeQuasar (scan of the manifest, upgrade plan,     *)
(*     optional uninstall/install through the package manager);            *)
(*   - app-vite/lib/helpers/resolve-extension.js: resolveExtension.        *)
(*                                                                         *)
(* JavaScript strings that the code inspects character by character        *)
(* (versions, manifest ranges) are sequences of one-character strings.     *)
(* Package names and paths are sequences of tokens (the scope "@quasar/"   *)
(* is one token).  The JavaScript values undefined and null are the        *)
(* one-element sequences <<"undefined">> and <<"null">>, which no string   *)
(* of the model equals.                                                    *)
(***************************************************************************)
EXTENDS Naturals, Sequences, FiniteSets, TLC

VARIABLES
    \* ---- resolveExtension, called on its own
    file, existing, entry, rpc,
    \* ---- getLatestVersion, called on its own
    gPackager, gResponse, gCurVersion, gArgv, gResult, gpc,
    \* ---- upgradeQuasar
    pkg, argv, packager, pc, ti, pi, deps, updateAvailable,
    removeDeprecatedAppPkg, lastQuery, console, ops

rvars == <<file, existing, entry, rpc>>
gvars == <<gPackager, gResponse, gCurVersion, gArgv, gResult, gpc>>
uvars == <<pkg, argv, packager, pc, ti, pi, deps, updateAvailable,
           removeDeprecatedAppPkg, lastQuery, console, ops>>
vars == <<rvars, gvars, uvars>>

Undefined == <<"undefined">>
Null == <<"null">>

\* JavaScript truthiness of a string-or-undefined value
Truthy(v) == v # Undefined /\ v # Null /\ v # <<>>

-----------------------------------------------------------------------------
(* Strings *)

Digit == {"0", "1", "2", "3", "4", "5", "6", "7", "8", "9"}

DigitChars == <<"0", "1", "2", "3", "4", "5", "6", "7", "8", "9">>

RECURSIVE NumStr(_)
NumStr(n) ==
    IF n < 10 THEN <<DigitChars[n + 1]>>
    ELSE NumStr(n \div 10) \o <<DigitChars[(n % 10) + 1]>>

\* the string "a.b.c<sfx>"
Ver(a, b, c, sfx) ==
    NumStr(a) \o <<".">> \o NumStr(b) \o <<".">> \o NumStr(c) \o sfx

TagAlpha == <<"a", "l", "p", "h", "a">>
TagBeta == <<"b", "e", "t", "a">>
TagRc == <<"r", "c">>
TagCanary == <<"c", "a", "n", "a", "r", "y">>

\* whether string s holds the literal lit at position i (1-based)
HasAt(s, i, lit) ==
    /\ i + Len(lit) - 1 <= Len(s)
    /\ \A k \in 1..Len(lit) : s[i + k - 1] = lit[k]

\* \d+ at position i, greedy: the number of digits consumed (0: no match)
RECURSIVE DigitRun(_, _)
DigitRun(s, i) ==
    IF i <= Len(s) /\ s[i] \in Digit THEN 1 + DigitRun(s, i + 1) ELSE 0

\* \.\d+ at position i: the position after it, 0 when it does not match
\* (i = 0 carries an earlier failure through)
DotDigits(s, i) ==
    IF i # 0 /\ i <= Len(s) /\ s[i] = "." /\ DigitRun(s, i + 1) > 0
    THEN i + 1 + DigitRun(s, i + 1)
    ELSE 0

-----------------------------------------------------------------------------
(* versionRegex = /^(\d+)\.[\d]+\.[\d]+-?(alpha|beta|rc)?/                 *)

\* curVersion.match(versionRegex): [major, prerelease], or Null (on which
\* the destructuring of line 98 throws; every installed version of the
\* model is a semver string, which matches).
\* Every quantifier is greedy and what follows the patch number is
\* optional, so the first attempt of the matcher succeeds: "-" is consumed
\* when present and the group is captured only if a tag starts right there.
versionRegex(s) ==
    LET m == DigitRun(s, 1)
        e == IF m = 0 THEN 0 ELSE DotDigits(s, DotDigits(s, m + 1))
        j == IF e <= Len(s) /\ e # 0 /\ s[e] = "-" THEN e + 1 ELSE e
        tag == IF HasAt(s, j, TagAlpha) THEN TagAlpha
               ELSE IF HasAt(s, j, TagBeta) THEN TagBeta
               ELSE IF HasAt(s, j, TagRc) THEN TagRc
               ELSE Undefined
    IN  IF e = 0 THEN Null
        ELSE [major |-> SubSeq(s, 1, m), prerelease |-> tag]

MajorSyntaxEnd_AnyMajor(version, any, major) ==
    IF DigitRun(version, 1) > 0 THEN DigitRun(version, 1) + 1 ELSE 0

\* The position after `^${majorSyntax}` in version: majorSyntax is either
\* the pattern (\d+) (any = TRUE) or the digits of the current major, which
\* as a pattern match themselves.  0 when it does not match.
MajorSyntaxEnd(version, any, major) ==
    IF any
    THEN IF DigitRun(version, 1) > 0 THEN DigitRun(version, 1) + 1 ELSE 0
    ELSE IF HasAt(version, 1, major) THEN Len(major) + 1 ELSE 0

\* regex.test(version) for the pattern built at lines 100-104:
\*   withTag:  ^${majorSyntax}\.(\d+)\.(\d+)-?(alpha|beta|rc)?   (no $)
\*   else:     ^${majorSyntax}\.(\d+)\.(\d+)$
RegexTest(version, any, major, withTag) ==
    LET e == DotDigits(version, DotDigits(version, MajorSyntaxEnd(version, any, major)))
    IN  IF withTag THEN e # 0 ELSE e = Len(version) + 1

\* versions.filter(version => regex.test(version))
Filter(versions, any, major, withTag) ==
    SelectSeq(versions, LAMBDA v : RegexTest(v, any, major, withTag))

\* versions[versions.length - 1]
Last(versions) ==
    IF Len(versions) = 0 THEN Undefined ELSE versions[Len(versions)]

\* lines 94-108 of getLatestVersion (the Version Matcher)
selectLatest(versions, curVersion, a) ==
    IF curVersion = Null THEN Last(versions)
    ELSE LET m == versionRegex(curVersion)
             withTag == Truthy(m.prerelease) \/ a.prerelease
         IN  Last(Filter(versions, a.major, m.major, withTag))

\* The outcome of JSON.parse(execSync(`${packager} info ${packageName}
\* versions --json`)), lines 74-84:
\*   "throw"   execSync throws (the command fails)
\*   "nonjson" the output is not JSON, JSON.parse throws
\*   "json"    the parsed payload: npm prints the array itself (items),
\*             yarn an envelope {type, data}
ExecFailed == [kind |-> "throw", type |-> Undefined, items |-> Undefined, data |-> Undefined]
NotJson == [kind |-> "nonjson", type |-> Undefined, items |-> Undefined, data |-> Undefined]
ErrorEnvelope == [kind |-> "json", type |-> <<"error">>, items |-> Undefined, data |-> Undefined]
NpmVersions(list) == [kind |-> "json", type |-> Undefined, items |-> list, data |-> Undefined]
YarnVersions(list) == [kind |-> "json", type |-> <<"inspect">>, items |-> Undefined, data |-> list]

\* what a successful query prints under each package manager
VersionsPayload(pm, list) ==
    IF pm = "yarn" THEN YarnVersions(list) ELSE NpmVersions(list)

getLatestVersion_CatchUndefined(pm, response, curVersion, a) ==
    IF response.kind \in {"throw", "nonjson"} THEN Undefined
    ELSE IF response.type = <<"error">> THEN Null
    ELSE selectLatest(IF pm = "yarn" THEN response.data ELSE response.items,
                      curVersion, a)

getLatestVersion(pm, response, curVersion, a) ==
    IF response.kind \in {"throw", "nonjson"} THEN Null
    ELSE IF response.type = <<"error">> THEN Null
    ELSE selectLatest(IF pm = "yarn" THEN response.data ELSE response.items,
                      curVersion, a)

\* whether the registry query of a response failed (the three failure modes)
QueryFailed(response) ==
    response.kind \in {"throw", "nonjson"} \/ response.type = <<"error">>

\* the candidate list of a successful response
Candidates(pm, response) ==
    IF pm = "yarn" THEN response.data ELSE response.items

-----------------------------------------------------------------------------
(* resolve-extension.js *)

extensions_JsFirst == << <<".js">>, <<>>, <<".ts">>, <<".jsx">>, <<".tsx">> >>

extensions == << <<>>, <<".js">>, <<".ts">>, <<".jsx">>, <<".tsx">> >>

existsSync(files, path) == path \in files

\* the loop of resolveExtension from the i-th extension on
RECURSIVE resolveFrom(_, _, _)
resolveFrom(files, f, i) ==
    IF i > Len(extensions) THEN Undefined
    ELSE IF existsSync(files, f \o extensions[i]) THEN f \o extensions[i]
    ELSE resolveFrom(files, f, i + 1)

resolveExtension(files, f) == resolveFrom(files, f, 1)

-----------------------------------------------------------------------------
(* Inputs *)

Suffix(tag) == <<"-">> \o tag

\* the candidate versions a registry may list
MaxCandidates == 4

VersionUniverse ==
    { Ver(1, 2, 2, <<>>), Ver(1, 2, 3, <<>>), Ver(1, 2, 4, <<>>),
      Ver(2, 0, 0, <<>>), Ver(10, 0, 0, <<>>),
      Ver(1, 2, 3, Suffix(TagBeta)), Ver(1, 2, 4, Suffix(TagBeta)),
      Ver(2, 0, 0, Suffix(TagRc) \o <<".", "1">>),
      Ver(1, 2, 5, Suffix(TagCanary)) }

\* installed versions (null: the package is not installed)
InstalledUniverse ==
    { Null, Ver(1, 2, 3, <<>>), Ver(1, 2, 3, Suffix(TagBeta)), Ver(10, 0, 0, <<>>) }

SeqsUpTo(S, n) == UNION { [1..k -> S] : k \in 0..n }

Flags == [install : BOOLEAN, prerelease : BOOLEAN, major : BOOLEAN]

Packagers == {"npm", "yarn"}

Responses(pm, lists) ==
    {ExecFailed, NotJson, ErrorEnvelope} \cup { VersionsPayload(pm, l) : l \in lists }

-----------------------------------------------------------------------------
(* The three programs at rest: each specification below runs one of them   *)
(* and leaves the variables of the other two as they are here.             *)

ResolverIdle ==
    /\ file = <<>> /\ existing = {} /\ entry = Undefined /\ rpc = "idle"

MatcherIdle ==
    /\ gPackager = "npm" /\ gResponse = ExecFailed /\ gCurVersion = Null
    /\ gArgv = [install |-> FALSE, prerelease |-> FALSE, major |-> FALSE]
    /\ gResult = Undefined /\ gpc = "idle"

NoQuery ==
    [packageName |-> <<>>, curVersion |-> Null, response |-> ExecFailed,
     latestVersion |-> Null]

UpgradeIdle ==
    /\ pkg = [dependencies |-> [defined |-> FALSE, entries |-> <<>>],
              devDependencies |-> [defined |-> FALSE, entries |-> <<>>]]
    /\ argv = [install |-> FALSE, prerelease |-> FALSE, major |-> FALSE]
    /\ packager = "npm" /\ pc = "idle" /\ ti = 1 /\ pi = 1
    /\ deps = [dependencies |-> <<>>, devDependencies |-> <<>>]
    /\ updateAvailable = FALSE /\ removeDeprecatedAppPkg = FALSE
    /\ lastQuery = NoQuery /\ console = <<>> /\ ops = <<>>

-----------------------------------------------------------------------------
(* SpecResolve: resolveExtension(file) over a set of existing files *)

BasePaths == { <<"src/a">>, <<"src/a", ".js">> }

FileUniverse ==
    { <<"src/a">>, <<"src/a", ".js">>, <<"src/a", ".ts">>, <<"src/a", ".jsx">>,
      <<"src/a", ".tsx">>, <<"src/a", ".js", ".js">>, <<"src/a", ".js", ".ts">>,
      <<"src/a", ".vue">> }

InitResolve ==
    /\ file \in BasePaths
    /\ existing \in SUBSET FileUniverse
    /\ entry = Undefined
    /\ rpc = "call"
    /\ MatcherIdle /\ UpgradeIdle

Resolve ==
    /\ rpc = "call"
    /\ entry' = resolveExtension(existing, file)
    /\ rpc' = "returned"
    /\ UNCHANGED <<file, existing, gvars, uvars>>

NextResolve == Resolve

SpecResolve == InitResolve /\ [][NextResolve]_vars

-----------------------------------------------------------------------------
(* SpecLatest: getLatestVersion(packager, packageName, curVersion) on one  *)
(* registry response                                                       *)

InitLatest ==
    /\ gPackager \in Packagers
    /\ gResponse \in Responses(gPackager, SeqsUpTo(VersionUniverse, MaxCandidates))
    /\ gCurVersion \in InstalledUniverse
    /\ gArgv \in { f \in Flags : f.install = FALSE }
    /\ gResult = Undefined
    /\ gpc = "call"
    /\ ResolverIdle /\ UpgradeIdle

Latest ==
    /\ gpc = "call"
    /\ gResult' = getLatestVersion(gPackager, gResponse, gCurVersion, gArgv)
    /\ gpc' = "returned"
    /\ UNCHANGED <<gPackager, gResponse, gCurVersion, gArgv, rvars, uvars>>

NextLatest == Latest

SpecLatest == InitLatest /\ [][NextLatest]_vars

-----------------------------------------------------------------------------
(* upgradeQuasar: the manifest and its packages                            *)

QUASAR == <<"quasar">>
ESLINT_PLUGIN == <<"eslint-plugin-quasar">>
APP == <<"@quasar/", "app">>
APP_WEBPACK == <<"@quasar/", "app-webpack">>
LODASH == <<"lodash">>

\* line 130, negated: is it a Quasar package?
IsQuasarPackage(packageName) ==
    ~ ( /\ packageName # QUASAR
        /\ packageName # ESLINT_PLUGIN
        /\ ~ (Len(packageName) > 0 /\ packageName[1] = "@quasar/") )

\* Object.keys(deps)
Types == <<"dependencies", "devDependencies">>

\* the package names a manifest group may declare, in key order
ManifestNames == <<APP, QUASAR, LODASH>>

RangeCaret == <<"^">> \o Ver(1, 2, 3, <<>>)
RangePinned == Ver(1, 2, 3, <<>>)
Ranges == {RangeCaret, RangePinned}

\* the entries of a group that declares ManifestNames[i] with range f[i]
\* (undefined: not declared), from the i-th name on
RECURSIVE EntriesFrom(_, _)
EntriesFrom(f, i) ==
    IF i > Len(ManifestNames) THEN <<>>
    ELSE (IF f[i] = Undefined THEN <<>>
          ELSE << [name |-> ManifestNames[i], range |-> f[i]] >>)
         \o EntriesFrom(f, i + 1)

\* a group of package.json: absent, or an object of name: range entries
Groups ==
    { [defined |-> FALSE, entries |-> <<>>] } \cup
    { [defined |-> TRUE, entries |-> EntriesFrom(f, 1)] :
        f \in [1..Len(ManifestNames) -> Ranges \cup {Undefined}] }

\* the number of entries of a manifest is bounded
MaxDeps == 2

Manifests ==
    { m \in [dependencies : Groups, devDependencies : Groups] :
        Len(m.dependencies.entries) + Len(m.devDependencies.entries) <= MaxDeps }

\* Object.keys(pkg[type] || {})
Keys(type) == [i \in 1..Len(pkg[type].entries) |-> pkg[type].entries[i].name]

\* group[packageName]
Lookup(group, packageName) ==
    LET idx == { i \in 1..Len(group.entries) : group.entries[i].name = packageName }
    IN  IF idx = {} THEN Undefined ELSE group.entries[CHOOSE i \in idx : TRUE].range

\* the position (type index, key index) of the two nested loops of lines
\* 127-128 at or after (t, p); <<3, 1>> when both loops are over
RECURSIVE LoopPos(_, _)
LoopPos(t, p) ==
    IF t > Len(Types) THEN <<Len(Types) + 1, 1>>
    ELSE IF p <= Len(Keys(Types[t])) THEN <<t, p>>
    ELSE LoopPos(t + 1, 1)

\* what the installed-package lookup and the registry may answer in a run
InstalledVersions == { Null, Ver(1, 2, 3, <<>>), Ver(3, 0, 1, <<>>) }

RegistryLists ==
    { <<>>,
      << Ver(1, 2, 3, <<>>), Ver(3, 0, 1, <<>>) >>,
      << Ver(1, 2, 3, <<>>), Ver(1, 2, 4, <<>>), Ver(3, 0, 1, <<>>),
         Ver(3, 1, 0, <<>>), Ver(3, 2, 0, Suffix(TagBeta)) >> }

\* String(v) in a template literal
StringOf(v) ==
    IF v = Undefined THEN <<"u", "n", "d", "e", "f", "i", "n", "e", "d">> ELSE v

-----------------------------------------------------------------------------
(* upgradeQuasar: console lines and operations on the project              *)

SkipLine(packageName) == [line |-> "Skipping!", packageName |-> packageName]
UpdateLine(packageName) == [line |-> "update", packageName |-> packageName]
CongratsLine == [line |-> "Congrats! All Quasar packages are up to date."]
PreviewLine(params) == [line |-> "Run quasar upgrade", params |-> params]
SuccessLine == [line |-> "Successfully upgraded Quasar packages."]

\* removeSync(path.join(root, 'node_modules', packageName))
removeSync(packageName) ==
    [op |-> "removeSync", path |-> <<"node_modules/">> \o packageName, params |-> <<>>]

\* spawn(packager, params, root)
spawn(pm, params) == [op |-> "spawn", path |-> <<pm>>, params |-> params]

\* lines 190-201: the operations that remove the deprecated @quasar/app
removeDeprecated_NoUninstall(pm) ==
    << removeSync(APP) >>

removeDeprecated(pm) ==
    << removeSync(APP),
       spawn(pm, IF pm = "yarn"
                 THEN << <<"remove">>, APP >>
                 ELSE << <<"uninstall">>, <<"--save", "--dev">>, APP >>) >>

\* lines 208-210: the head of the install command of a group; an option is
\* the token "--save" and what the template appends to it, so that
\* `--save${'--dev'}` is <<"--save", "--dev">>
installParams(pm, type) ==
    IF pm = "yarn"
    THEN (IF type = "devDependencies" THEN << <<"add">>, <<"--dev">> >> ELSE << <<"add">> >>)
    ELSE << <<"install">>,
            <<"--save">> \o (IF type = "devDependencies" THEN <<"--dev">> ELSE <<>>) >>

TypeError == <<"TypeError">>

\* lines 218-220: pkg.dependencies[name] || pkg.devDependencies[name] || '^';
\* reading a property of an absent group throws a TypeError
pinSource(packageName) ==
    IF ~pkg.dependencies.defined THEN TypeError
    ELSE IF Truthy(Lookup(pkg.dependencies, packageName))
         THEN Lookup(pkg.dependencies, packageName)
    ELSE IF ~pkg.devDependencies.defined THEN TypeError
    ELSE IF Truthy(Lookup(pkg.devDependencies, packageName))
         THEN Lookup(pkg.devDependencies, packageName)
    ELSE <<"^">>

\* /^\d/.test(range)
StartsWithDigit(range) == Len(range) > 0 /\ range[1] \in Digit

\* line 223: `${dep.packageName}@${pinned ? '' : '^'}${dep.latestVersion}`
installArg(dep, pinned) ==
    dep.packageName \o <<"@">> \o (IF pinned THEN <<>> ELSE <<"^">>)
        \o StringOf(dep.latestVersion)

\* lines 212-224: deps[type].forEach from the i-th entry on, given the
\* operations done and the params built so far
RECURSIVE forEachDep(_, _, _, _)
forEachDep(plan, i, done, params) ==
    IF i > Len(plan) THEN [threw |-> FALSE, ops |-> done, params |-> params]
    ELSE LET removed == Append(done, removeSync(plan[i].packageName))
             src == pinSource(plan[i].packageName)
         IN  IF src = TypeError
             THEN [threw |-> TRUE, ops |-> removed, params |-> params]
             ELSE forEachDep(plan, i + 1, removed,
                             Append(params, installArg(plan[i], StartsWithDigit(src))))

\* lines 168-185: what the run does once the scan is over
reportBranch_NoInstallCheck ==
    IF ~updateAvailable THEN "uptodate" ELSE "upgrade"

reportBranch ==
    IF ~updateAvailable THEN "uptodate"
    ELSE IF ~argv.install THEN "preview"
    ELSE "upgrade"

-----------------------------------------------------------------------------
(* Spec: one run of upgradeQuasar                                          *)

Init ==
    /\ pkg \in Manifests
    /\ argv \in Flags
    /\ packager \in Packagers
    /\ ti = LoopPos(1, 1)[1]
    /\ pi = LoopPos(1, 1)[2]
    /\ pc = IF LoopPos(1, 1)[1] > Len(Types) THEN "report" ELSE "scan"
    /\ deps = [dependencies |-> <<>>, devDependencies |-> <<>>]
    /\ updateAvailable = FALSE
    /\ removeDeprecatedAppPkg = FALSE
    /\ lastQuery = NoQuery
    /\ console = <<>>
    /\ ops = <<>>
    /\ ResolverIdle /\ MatcherIdle

\* the package name the inner loop is at
CurrentName == Keys(Types[ti])[pi]

\* the next iteration of the loops of lines 127-128
NextIteration ==
    /\ ti' = LoopPos(ti, pi + 1)[1]
    /\ pi' = LoopPos(ti, pi + 1)[2]
    /\ pc' = IF LoopPos(ti, pi + 1)[1] > Len(Types) THEN "report" ELSE "scan"

\* lines 130-132: not a Quasar package
Continue ==
    /\ pc = "scan"
    /\ ~IsQuasarPackage(CurrentName)
    /\ NextIteration
    /\ UNCHANGED <<pkg, argv, packager, deps, updateAvailable,
                   removeDeprecatedAppPkg, lastQuery, console, ops, rvars, gvars>>

\* lines 134-164: one Quasar package, with what the installed-package
\* lookup (curVersion) and the registry (response) answer
Gather ==
    /\ pc = "scan"
    /\ IsQuasarPackage(CurrentName)
    /\ \E curVersion \in InstalledVersions,
          response \in Responses(packager, RegistryLists) :
        LET renamed == /\ CurrentName = APP
                       /\ Truthy(curVersion)
                       /\ HasAt(curVersion, 1, <<"3", ".">>)
            packageName == IF renamed THEN APP_WEBPACK ELSE CurrentName
            latestVersion == getLatestVersion(packager, response, curVersion, argv)
        IN  /\ removeDeprecatedAppPkg' = (removeDeprecatedAppPkg \/ renamed)
            /\ lastQuery' = [packageName |-> packageName, curVersion |-> curVersion,
                             response |-> response, latestVersion |-> latestVersion]
            /\ IF latestVersion = Null
               THEN /\ console' = Append(console, SkipLine(packageName))
                    /\ UNCHANGED <<deps, updateAvailable>>
               ELSE IF curVersion # latestVersion
               THEN /\ deps' = [deps EXCEPT ![Types[ti]] =
                                  Append(@, [packageName |-> packageName,
                                             latestVersion |-> latestVersion])]
                    /\ updateAvailable' = TRUE
                    /\ console' = Append(console, UpdateLine(packageName))
               ELSE UNCHANGED <<deps, updateAvailable, console>>
    /\ NextIteration
    /\ UNCHANGED <<pkg, argv, packager, ops, rvars, gvars>>

\* lines 168-173
UpToDate ==
    /\ pc = "report"
    /\ reportBranch = "uptodate"
    /\ console' = Append(console, CongratsLine)
    /\ pc' = "done"
    /\ UNCHANGED <<pkg, argv, packager, ti, pi, deps, updateAvailable,
                   removeDeprecatedAppPkg, lastQuery, ops, rvars, gvars>>

\* lines 175-185
Preview ==
    /\ pc = "report"
    /\ reportBranch = "preview"
    /\ console' = Append(console,
            PreviewLine(<<"-i">> \o (IF argv.prerelease THEN <<"-p">> ELSE <<>>)
                                 \o (IF argv.major THEN <<"-m">> ELSE <<>>)))
    /\ pc' = "done"
    /\ UNCHANGED <<pkg, argv, packager, ti, pi, deps, updateAvailable,
                   removeDeprecatedAppPkg, lastQuery, ops, rvars, gvars>>

\* what a spawned package-manager command may do: exit with status 0, or
\* fail, on which lib/spawn ends the process
SpawnOutcomes == {"ok", "failed"}

\* lines 187-201, removeDeprecatedAppPkg === true
RemoveDeprecatedApp ==
    /\ pc = "report"
    /\ reportBranch = "upgrade"
    /\ removeDeprecatedAppPkg = TRUE
    /\ ops' = ops \o removeDeprecated(packager)
    /\ \E outcome \in SpawnOutcomes :
        pc' = IF outcome = "ok" THEN "install" ELSE "exit"
    /\ ti' = 1 /\ pi' = 1
    /\ UNCHANGED <<pkg, argv, packager, deps, updateAvailable,
                   removeDeprecatedAppPkg, lastQuery, console, rvars, gvars>>

\* lines 187-201, nothing to remove
KeepApp ==
    /\ pc = "report"
    /\ reportBranch = "upgrade"
    /\ removeDeprecatedAppPkg # TRUE
    /\ pc' = "install"
    /\ ti' = 1 /\ pi' = 1
    /\ UNCHANGED <<pkg, argv, packager, deps, updateAvailable,
                   removeDeprecatedAppPkg, lastQuery, console, ops, rvars, gvars>>

\* lines 204-206: a group without plan entries
SkipGroup ==
    /\ pc = "install"
    /\ ti <= Len(Types)
    /\ Len(deps[Types[ti]]) = 0
    /\ ti' = ti + 1
    /\ UNCHANGED <<pkg, argv, packager, pc, pi, deps, updateAvailable,
                   removeDeprecatedAppPkg, lastQuery, console, ops, rvars, gvars>>

\* lines 208-227: the install of one group
InstallGroup ==
    /\ pc = "install"
    /\ ti <= Len(Types)
    /\ Len(deps[Types[ti]]) # 0
    /\ LET each == forEachDep(deps[Types[ti]], 1, <<>>, installParams(packager, Types[ti]))
       IN  IF each.threw
           THEN /\ ops' = ops \o each.ops
                /\ pc' = "crashed"
           ELSE /\ ops' = ops \o each.ops \o << spawn(packager, each.params) >>
                /\ \E outcome \in SpawnOutcomes :
                    pc' = IF outcome = "ok" THEN "install" ELSE "exit"
    /\ ti' = ti + 1
    /\ UNCHANGED <<pkg, argv, packager, pi, deps, updateAvailable,
                   removeDeprecatedAppPkg, lastQuery, console, rvars, gvars>>

\* lines 230-231
Success ==
    /\ pc = "install"
    /\ ti > Len(Types)
    /\ console' = Append(console, SuccessLine)
    /\ pc' = "done"
    /\ UNCHANGED <<pkg, argv, packager, ti, pi, deps, updateAvailable,
                   removeDeprecatedAppPkg, lastQuery, ops, rvars, gvars>>

Next ==
    \/ Continue
    \/ Gather
    \/ UpToDate
    \/ Preview
    \/ RemoveDeprecatedApp
    \/ KeepApp
    \/ SkipGroup
    \/ InstallGroup
    \/ Success

Spec == Init /\ [][Next]_vars

-----------------------------------------------------------------------------
(* What the claims mean by a version, stated without the regular           *)
(* expressions of the code                                                 *)

\* s is exactly major.minor.patch: three non-empty digit strings and two dots
ExactVersion(s) ==
    \E i, j \in 1..Len(s) :
        /\ 1 < i /\ i + 1 < j /\ j < Len(s)
        /\ s[i] = "." /\ s[j] = "."
        /\ \A k \in (1..Len(s)) \ {i, j} : s[k] \in Digit

\* the major component of a version: what precedes its first dot
MajorOf(s) ==
    LET d == CHOOSE i \in 1..Len(s) : s[i] = "." /\ \A k \in 1..(i - 1) : s[k] # "."
    IN  SubSeq(s, 1, d - 1)

PrereleaseTags == {TagAlpha, TagBeta, TagRc}

\* a trailing pre-release tag: alpha, beta or rc, with or without the dash,
\* possibly numbered (-rc.1)
TagSuffixes ==
    LET plain == PrereleaseTags \cup { Suffix(t) : t \in PrereleaseTags }
    IN  plain \cup { t \o <<".", "1">> : t \in plain }

\* s is major.minor.patch followed by a pre-release tag
TaggedVersion(s) ==
    \E n \in 1..Len(s) :
        /\ ExactVersion(SubSeq(s, 1, n))
        /\ SubSeq(s, n + 1, Len(s)) \in TagSuffixes

\* the last element of versions that satisfies Q, undefined when none does
LastSuch(versions, Q(_)) ==
    LET idx == { i \in 1..Len(versions) : Q(versions[i]) }
    IN  IF idx = {} THEN Undefined
        ELSE versions[CHOOSE i \in idx : \A k \in idx : k <= i]

MatcherReturned ==
    gpc = "returned" /\ ~QueryFailed(gResponse) /\ gCurVersion # Null

gCandidates == Candidates(gPackager, gResponse)

-----------------------------------------------------------------------------
(* Claims about the Version Matcher (SpecLatest)                           *)

\* C6: for a current version without pre-release tag and allowPrerelease
\* false, the matcher returns the last candidate, in the given order, that
\* qualifies (an exact major.minor.patch) and whose major equals the current
\* major, or, with allowMajorBump, the last qualifying candidate of any
\* major; undefined when no candidate qualifies.
C6_MajorRule ==
    (MatcherReturned /\ ~TaggedVersion(gCurVersion) /\ ~gArgv.prerelease)
        => gResult = LastSuch(gCandidates,
                LAMBDA c : /\ ExactVersion(c)
                           /\ (gArgv.major \/ MajorOf(c) = MajorOf(gCurVersion)))

\* current 1.2.3 over [1.2.2, 1.2.3, 1.2.4, 2.0.0] without allowMajorBump
\* has yielded 1.2.4
C6_Witness ==
    /\ gpc = "returned" /\ ~QueryFailed(gResponse)
    /\ gCurVersion = Ver(1, 2, 3, <<>>)
    /\ ~gArgv.major /\ ~gArgv.prerelease
    /\ gCandidates = << Ver(1, 2, 2, <<>>), Ver(1, 2, 3, <<>>),
                        Ver(1, 2, 4, <<>>), Ver(2, 0, 0, <<>>) >>
    /\ gResult = Ver(1, 2, 4, <<>>)

\* C7: without a tag on the current version and without allowPrerelease
\* every returned version is an exact major.minor.patch; otherwise a
\* candidate qualifies exactly when it is major.minor.patch optionally
\* followed by a trailing tag alpha|beta|rc (and passes the major rule), so
\* the matcher returns the last such candidate.
C7_PrereleaseRule ==
    MatcherReturned =>
        IF ~TaggedVersion(gCurVersion) /\ ~gArgv.prerelease
        THEN gResult = Undefined \/ ExactVersion(gResult)
        ELSE gResult = LastSuch(gCandidates,
                LAMBDA c : /\ ExactVersion(c) \/ TaggedVersion(c)
                           /\ (gArgv.major \/ MajorOf(c) = MajorOf(gCurVersion)))

-----------------------------------------------------------------------------
(* Claims about the Extension Resolver (SpecResolve)                       *)

\* the five candidates of a base path in the priority order of the claim
ResolveCandidates(p) ==
    << p, p \o <<".js">>, p \o <<".ts">>, p \o <<".jsx">>, p \o <<".tsx">> >>

\* C9: resolve(p) returns the first existing candidate in the order p,
\* p.js, p.ts, p.jsx, p.tsx, and an absent result when none exists.
C9_FirstExisting ==
    rpc = "returned" =>
        LET c == ResolveCandidates(file)
            idx == { i \in 1..Len(c) : c[i] \in existing }
        IN  IF idx = {} THEN entry = Undefined
            ELSE entry = c[CHOOSE i \in idx : \A k \in idx : i <= k]

\* p and p.js both exist and p has been returned unchanged
C9_Witness ==
    /\ rpc = "returned"
    /\ file \in existing /\ (file \o <<".js">>) \in existing
    /\ entry = file

-----------------------------------------------------------------------------
(* Claims about the Upgrade Orchestrator (Spec)                            *)

PlanSize == Len(deps["dependencies"]) + Len(deps["devDependencies"])

\* an install invocation of the package manager
IsInstall(o) ==
    o.op = "spawn" /\ o.params[1] \in { <<"install">>, <<"add">> }

\* the uninstall invocation of the package manager for @quasar/app
IsUninstall(o) ==
    /\ o.op = "spawn"
    /\ o.params[1] \in { <<"uninstall">>, <<"remove">> }
    /\ o.params[Len(o.params)] = APP

\* the install invocations issued so far, in order
Installs == SelectSeq(ops, IsInstall)

\* the groups that have plan entries, in the order of the install loop
PlannedTypes == SelectSeq(Types, LAMBDA t : Len(deps[t]) > 0)

\* the i-th package argument of an install invocation of group t
PackageArg(install, t, i) ==
    install.params[Len(install.params) - Len(deps[t]) + i]

\* the last query appended a plan entry
Appended(q) == q.latestVersion # Null /\ q.latestVersion # q.curVersion

InSeq(x, sq) == \E i \in 1..Len(sq) : sq[i] = x

\* C1: every plan entry has a latestVersion that was determined: the
\* registry query succeeded and the matcher selected a version string from
\* the candidate list, different from the installed version; when no
\* candidate qualifies no entry is appended.
C1_PlanEntriesDetermined ==
    /\ \A t \in {"dependencies", "devDependencies"} :
        \A i \in 1..Len(deps[t]) :
            deps[t][i].latestVersion \notin {Undefined, Null}
    /\ (lastQuery # NoQuery /\ Appended(lastQuery)) =>
        /\ ~QueryFailed(lastQuery.response)
        /\ InSeq(lastQuery.latestVersion, Candidates(packager, lastQuery.response))
        /\ lastQuery.latestVersion # lastQuery.curVersion

\* C2: a mutating operation (removeSync, install or uninstall) happens only
\* with the install flag and a non-empty plan; a run whose plan is empty
\* ends on the "up to date" report without any, and a run without the
\* install flag ends on the preview without any.
C2_MutationsAuthorized ==
    /\ Len(ops) > 0 => (argv.install /\ PlanSize > 0)
    /\ (pc = "done" /\ PlanSize = 0) =>
        (console[Len(console)] = CongratsLine /\ ops = <<>>)
    /\ (pc = "done" /\ PlanSize > 0 /\ ~argv.install) =>
        (console[Len(console)].line = "Run quasar upgrade" /\ ops = <<>>)

\* with the install flag set, a managed package was found at its latest
\* version and the run has ended "up to date" without touching anything
C2_Witness ==
    /\ pc = "done" /\ argv.install
    /\ lastQuery # NoQuery /\ ~QueryFailed(lastQuery.response)
    /\ lastQuery.latestVersion = lastQuery.curVersion
    /\ console = << CongratsLine >>
    /\ ops = <<>>

\* the manifest entry a plan entry of group t comes from: the entry of its
\* package, or of @quasar/app when the migration renamed it
OriginalEntry(t, packageName) ==
    IF Lookup(pkg[t], packageName) # Undefined THEN Lookup(pkg[t], packageName)
    ELSE Lookup(pkg[t], APP)

\* C3: every package argument of every install invocation is name@X when
\* the original manifest entry of the package in its group starts with a
\* digit and name@^X otherwise.
C3_PinningPreserved ==
    \A k \in 1..Len(Installs) :
        LET t == PlannedTypes[k]
        IN  \A i \in 1..Len(deps[t]) :
                PackageArg(Installs[k], t, i) =
                    deps[t][i].packageName \o <<"@">>
                    \o (IF OriginalEntry(t, deps[t][i].packageName)[1] \in Digit
                        THEN <<>> ELSE <<"^">>)
                    \o StringOf(deps[t][i].latestVersion)

\* the head of the install command the claim describes
ClaimedInstallHead(pm, t) ==
    IF pm = "yarn"
    THEN (IF t = "devDependencies" THEN << <<"add">>, <<"--dev">> >> ELSE << <<"add">> >>)
    ELSE (IF t = "devDependencies"
          THEN << <<"install">>, <<"--save", "-dev">> >>
          ELSE << <<"install">>, <<"--save">> >>)

\* C4: an executing run that completes has issued exactly one install
\* invocation per group with plan entries, none for an empty group, each
\* holding the entries of its group in plan order behind the save option of
\* the group (--save-dev / add --dev for devDependencies, --save / add for
\* dependencies).
C4_OneInstallPerGroup ==
    (pc = "done" /\ argv.install /\ PlanSize > 0) =>
        /\ Len(Installs) = Len(PlannedTypes)
        /\ \A k \in 1..Len(Installs) :
            LET t == PlannedTypes[k]
                head == ClaimedInstallHead(packager, t)
            IN  /\ Len(Installs[k].params) = Len(head) + Len(deps[t])
                /\ SubSeq(Installs[k].params, 1, Len(head)) = head
                /\ \A i \in 1..Len(deps[t]) :
                    HasAt(PackageArg(Installs[k], t, i), 1,
                          deps[t][i].packageName \o <<"@">>)

\* C5: when the legacy-removal flag is set, every install invocation is
\* preceded by the deletion of node_modules/@quasar/app and by the uninstall
\* of @quasar/app, and no install precedes the uninstall.
C5_LegacyRemovedFirst ==
    \A i \in 1..Len(ops) :
        IsInstall(ops[i]) =>
            /\ removeDeprecatedAppPkg =>
                \E j, k \in 1..(i - 1) :
                    j < k /\ ops[j] = removeSync(APP) /\ IsUninstall(ops[k])
            /\ \A k \in 1..Len(ops) : IsUninstall(ops[k]) => k < i

\* a run that removed the legacy package has gone on to install
C5_Witness ==
    /\ removeDeprecatedAppPkg
    /\ pc = "done"
    /\ Len(Installs) > 0

\* C8: a failed registry query (command failure, non-JSON output, error
\* envelope) makes getLatestVersion return null without throwing; the
\* orchestrator prints the skip warning, leaves the plan of both groups and
\* the project untouched and goes on with the next package.
C8_RegistryFailureSkips ==
    [][ ( /\ pc = "scan"
          /\ IsQuasarPackage(CurrentName)
          /\ QueryFailed(lastQuery'.response) )
        => /\ lastQuery'.latestVersion = Null
           /\ deps' = deps
           /\ updateAvailable' = updateAvailable
           /\ console' = Append(console, SkipLine(lastQuery'.packageName))
           /\ ops' = ops
           /\ <<ti', pi'>> = LoopPos(ti, pi + 1)
           /\ pc' = IF ti' > Len(Types) THEN "report" ELSE "scan" ]_vars

\* a package was skipped on a registry failure and a later package of the
\* same scan entered the plan
C8_Witness ==
    \E i, j \in 1..Len(console) :
        /\ i < j
        /\ console[i].line = "Skipping!"
        /\ console[j].line = "update"

\* C10: a completed run that removed the legacy package (uninstall of
\* @quasar/app) has also issued an install that includes the successor
\* @quasar/app-webpack.
C10_SuccessorInstalled ==
    (pc = "done" /\ \E k \in 1..Len(ops) : IsUninstall(ops[k])) =>
        \E i \in 1..Len(Installs) :
            \E a \in 1..Len(Installs[i].params) :
                HasAt(Installs[i].params[a], 1, APP_WEBPACK \o <<"@">>)

====
